---- MODULE Spec2Model ----
(***************************************************************************)
(* A model of digraphx: the negative cycle finder (Howard's method) of     *)
(* neg_cycle.py and the parametric solver of parametric.py with the cycle  *)
(* ratio oracle of min_cycle_ratio.py; the finder of neg_cycle_q.py with   *)
(* MinParametricSolver of min_parmetric_q.py; the finder of all.py.        *)
(*                                                                         *)
(* A graph is the adjacency mapping flattened in its iteration order: the  *)
(* sequence of edges that `for utx, nbrs in digraph.items(): for vtx, edge *)
(* in nbrs.items()` visits.  Nodes are 1..NumNodes and are iterated in     *)
(* that order; the neighbours of a node are iterated in any fixed order.   *)
(* Numbers of the Domain and Ratio types are exact rationals <<n, d>>.     *)
(***************************************************************************)
EXTENDS Integers, Sequences, FiniteSets, TLC

NumNodes == 3
MaxEdges == 3
MaxWeight == 1
MaxDist0 == 1
MaxTime == 2
MaxRatio0 == 2

Nodes == 1..NumNodes

VARIABLES
    digraph,    \* the edges in iteration order, each [u, v, cost, time]
    weightfn,   \* the get_weight callable: "weight" (lambda e: e[weight]) or "omega"
    dist,       \* the caller's distance map, Node -> rational
    pred,       \* the finder's predecessor map, a partial map Node -> [node, edge]
    succ,       \* the successor map of the neg_cycle_q finder
    method,     \* the generator called: "howard", "howard_pred" or "howard_succ"
    update_ok,  \* the update_ok callable handed to howard_pred / howard_succ
    found,      \* howard's local flag
    handles,    \* what find_cycle still has to yield in this round
    hpc,        \* where the howard generator stands
    yielded,    \* the cycles the current howard invocation has yielded so far
    rounds,     \* relaxation rounds of the current howard invocation
    dtype,      \* type of the dist values: "int" or "Fraction"
    ratio,      \* run's driving ratio
    r_min,      \* run's best ratio so far
    c_min,      \* run's best cycle so far
    cycle,      \* run's cycle of the last improving iteration
    spc,        \* where MaxParametricSolver.run stands
    r0,         \* the ratio run was called with
    iters,      \* outer iterations run has started
    cls_pred,   \* NegCycleFinder.pred, the dict the class statement creates
    inst_pred,  \* per finder instance: its own pred attribute, once assigned
    inst_dist,  \* per finder instance: the dist map its caller passes
    calls,      \* the calls made on the finder instances, in order
    weights,    \* the distances the oracle computed for the edges of a cycle
    r_max,      \* MinParametricSolver.run's best ratio so far
    c_max,      \* MinParametricSolver.run's best cycle so far
    reverse,    \* MinParametricSolver.run's direction flag
    pick_one_only   \* MinParametricSolver.run's argument

vars == <<digraph, weightfn, dist, pred, succ, method, update_ok, found, handles,
          hpc, yielded, rounds, dtype, ratio, r_min, c_min, cycle, spc, r0, iters,
          cls_pred, inst_pred, inst_dist, calls, weights,
          r_max, c_max, reverse, pick_one_only>>

solverVars == <<ratio, r_min, c_min, cycle, spc, iters>>
inputVars == <<digraph, weightfn, dtype, r0, method, update_ok>>
sharedVars == <<cls_pred, inst_pred, inst_dist, calls>>
minVars == <<r_max, c_max, reverse, pick_one_only>>
otherVars == <<sharedVars, weights, minVars>>

----------------------------------------------------------------------------
(* Exact rationals, as fractions.Fraction keeps them: lowest terms, d > 0. *)

Abs(x) == IF x < 0 THEN -x ELSE x

RECURSIVE Gcd(_, _)
Gcd(a, b) == IF b = 0 THEN a ELSE Gcd(b, a % b)

Frac(n, d) ==
    LET g == Gcd(Abs(n), Abs(d))
        s == IF d < 0 THEN -1 ELSE 1
    IN  <<s * (n \div g), s * (d \div g)>>

FInt(n) == <<n, 1>>
FAdd(a, b) == Frac(a[1] * b[2] + b[1] * a[2], a[2] * b[2])
FSub(a, b) == Frac(a[1] * b[2] - b[1] * a[2], a[2] * b[2])
FMul(a, b) == Frac(a[1] * b[1], a[2] * b[2])
FDiv(a, b) == Frac(a[1] * b[2], a[2] * b[1])
FLt(a, b) == a[1] * b[2] < b[1] * a[2]
FLe(a, b) == a[1] * b[2] <= b[1] * a[2]

\* int(x): truncation toward zero
Trunc(a) == IF a[1] >= 0 THEN FInt(a[1] \div a[2]) ELSE FInt(-((-a[1]) \div a[2]))

----------------------------------------------------------------------------
(* The inputs. *)

Keys == Nodes \X Nodes

\* the adjacency mapping flattened: no parallel edges, and the edges of one
\* source node are contiguous, the sources in node order
GraphShapes ==
    {s \in UNION {[1..k -> Keys] : k \in 0..MaxEdges} :
        /\ \A i, j \in 1..Len(s) : i < j => s[i][1] <= s[j][1]
        /\ \A i, j \in 1..Len(s) : i # j => s[i] # s[j]}

Costs == (-MaxWeight)..MaxWeight
Times == 1..MaxTime

MkGraph(shape, costs, times) ==
    [i \in 1..Len(shape) |->
        [u |-> shape[i][1], v |-> shape[i][2], cost |-> costs[i], time |-> times[i]]]

----------------------------------------------------------------------------
(* The cycle ratio oracle and the weight function. *)

\* a distance that adds the time term
distance_plus(r, edge) == FAdd(FInt(edge.cost), FMul(r, FInt(edge.time)))

\* CycleRatioAPI.distance: K(edge["cost"]) - ratio * edge["time"]
distance(r, edge) == FSub(FInt(edge.cost), FMul(r, FInt(edge.time)))

RECURSIVE SumOf(_, _)
SumOf(cyc, field) ==
    IF cyc = <<>> THEN 0 ELSE Head(cyc)[field] + SumOf(Tail(cyc), field)

total_cost(cyc) == SumOf(cyc, "cost")
total_time(cyc) == SumOf(cyc, "time")

\* a zero_cancel that divides by the number of edges
zero_cancel_mean(cyc) == FDiv(FInt(total_cost(cyc)), FInt(Len(cyc)))

\* CycleRatioAPI.zero_cancel: K(total_cost) / total_time
zero_cancel(cyc) == FDiv(FInt(total_cost(cyc)), FInt(total_time(cyc)))

\* D(x) for D = type of the dist values
Cast(D, x) == IF D = "int" THEN Trunc(x) ELSE x

\* the get_weight a caller hands to howard: the tests' lambda edge: edge["weight"]
\* (the weight is kept in the cost field), or run's closure over ratio
get_weight(edge) ==
    IF weightfn = "weight" THEN FInt(edge.cost) ELSE Cast(dtype, distance(ratio, edge))

----------------------------------------------------------------------------
(* NegCycleFinder *)

NoDict == << >>

Put(map, k, val) == (k :> val) @@ map

\* a relax that also updates on a tie
relax_improves_on_tie(old, new) == FLe(new, old)

\* relax: the test `dist[vtx] > distance`
relax_improves(old, new) == FLt(new, old)

\* a relax whose flag reports the last edge only
RECURSIVE relax_from_last_flag(_, _, _, _)
relax_from_last_flag(i, d, p, changed) ==
    IF i > Len(digraph) THEN [dist |-> d, pred |-> p, changed |-> changed]
    ELSE LET edge == digraph[i]
             new == FAdd(d[edge.u], get_weight(edge))
         IN  IF relax_improves(d[edge.v], new)
             THEN relax_from_last_flag(i + 1, [d EXCEPT ![edge.v] = new],
                             Put(p, edge.v, [node |-> edge.u, edge |-> edge]), TRUE)
             ELSE relax_from_last_flag(i + 1, d, p, FALSE)

\* a relax that passes over self-loops
RECURSIVE relax_from_skip_self(_, _, _, _)
relax_from_skip_self(i, d, p, changed) ==
    IF i > Len(digraph) THEN [dist |-> d, pred |-> p, changed |-> changed]
    ELSE LET edge == digraph[i]
             new == FAdd(d[edge.u], get_weight(edge))
         IN  IF edge.u # edge.v /\ relax_improves(d[edge.v], new)
             THEN relax_from_skip_self(i + 1, [d EXCEPT ![edge.v] = new],
                             Put(p, edge.v, [node |-> edge.u, edge |-> edge]), TRUE)
             ELSE relax_from_skip_self(i + 1, d, p, changed)

RECURSIVE relax_from(_, _, _, _)
relax_from(i, d, p, changed) ==
    IF i > Len(digraph) THEN [dist |-> d, pred |-> p, changed |-> changed]
    ELSE LET edge == digraph[i]
             new == FAdd(d[edge.u], get_weight(edge))
         IN  IF relax_improves(d[edge.v], new)
             THEN relax_from(i + 1, [d EXCEPT ![edge.v] = new],
                             Put(p, edge.v, [node |-> edge.u, edge |-> edge]), TRUE)
             ELSE relax_from(i + 1, d, p, changed)

relax(d, p) == relax_from(1, d, p, FALSE)

\* a find_cycle that yields on reaching any visited node
closes_cycle_any_tag(visited, nxt, vtx) == TRUE

\* find_cycle: the test `visited[utx] == vtx` on reaching a visited node
closes_cycle(visited, nxt, vtx) == visited[nxt] = vtx

\* find_cycle: the walk from one start node vtx along point_to
RECURSIVE walk(_, _, _, _)
walk(utx, vtx, visited, point_to) ==
    IF utx \notin DOMAIN point_to THEN [visited |-> visited, out |-> <<>>]
    ELSE LET nxt == point_to[utx].node
         IN  IF nxt \in DOMAIN visited
             THEN [visited |-> visited,
                   out |-> IF closes_cycle(visited, nxt, vtx) THEN <<nxt>> ELSE <<>>]
             ELSE walk(nxt, vtx, Put(visited, nxt, vtx), point_to)

\* find_cycle: the filter over the start nodes
start_ok(vtx, visited) == vtx \notin DOMAIN visited

\* a find_cycle that forgets what earlier start nodes visited
RECURSIVE find_from_fresh_visited(_, _, _, _)
find_from_fresh_visited(vtx, visited, out, point_to) ==
    IF vtx > NumNodes THEN out
    ELSE LET r == walk(vtx, vtx, Put(NoDict, vtx, vtx), point_to)
         IN  find_from_fresh_visited(vtx + 1, r.visited, out \o r.out, point_to)

RECURSIVE find_from(_, _, _, _)
find_from(vtx, visited, out, point_to) ==
    IF vtx > NumNodes THEN out
    ELSE IF ~start_ok(vtx, visited) THEN find_from(vtx + 1, visited, out, point_to)
    ELSE LET r == walk(vtx, vtx, Put(visited, vtx, vtx), point_to)
         IN  find_from(vtx + 1, r.visited, out \o r.out, point_to)

\* a find_cycle that starts from the first node only
find_cycle_first_start(point_to) == walk(1, 1, Put(NoDict, 1, 1), point_to).out

\* the handles find_cycle yields, in order
find_cycle(point_to) == find_from(1, NoDict, <<>>, point_to)

\* a cycle_list that tests for the handle before it appends the edge
RECURSIVE cycle_from_drop_last(_, _, _)
cycle_from_drop_last(vtx, handle, point_to) ==
    LET utx == point_to[vtx].node
    IN  IF utx = handle THEN <<>>
        ELSE <<point_to[vtx].edge>> \o cycle_from_drop_last(utx, handle, point_to)

RECURSIVE cycle_from(_, _, _)
cycle_from(vtx, handle, point_to) ==
    LET utx == point_to[vtx].node
    IN  <<point_to[vtx].edge>> \o
            (IF utx = handle THEN <<>> ELSE cycle_from(utx, handle, point_to))

cycle_list(handle, point_to) == cycle_from(handle, handle, point_to)

RECURSIVE negative_from(_, _, _, _)
negative_from(vtx, handle, d, p) ==
    LET utx == p[vtx].node
    IN  IF FLt(FAdd(d[utx], get_weight(p[vtx].edge)), d[vtx]) THEN TRUE
        ELSE IF utx = handle THEN FALSE
        ELSE negative_from(utx, handle, d, p)

is_negative(handle, d, p) == negative_from(handle, handle, d, p)

----------------------------------------------------------------------------
(* howard, a generator: one action per resumption point. *)

MaxCount == 6
Count(n) == IF n < MaxCount THEN n + 1 ELSE n

\* self.pred = {}; found = False
howard_start ==
    /\ hpc = "call"
    /\ method = "howard"
    /\ pred' = NoDict
    /\ found' = FALSE
    /\ handles' = <<>>
    /\ yielded' = <<>>
    /\ rounds' = 0
    /\ hpc' = "relax"
    /\ UNCHANGED <<dist, solverVars, succ, inputVars, otherVars>>

\* while not found and self.relax(dist, get_weight): for vtx in self.find_cycle()
howard_relax ==
    /\ hpc = "relax"
    /\ method = "howard"
    /\ LET r == relax(dist, pred)
       IN  /\ dist' = r.dist
           /\ pred' = r.pred
           /\ handles' = IF r.changed THEN find_cycle(r.pred) ELSE <<>>
           /\ hpc' = IF r.changed THEN "yield" ELSE "done"
    /\ rounds' = Count(rounds)
    /\ UNCHANGED <<found, yielded, solverVars, succ, inputVars, otherVars>>

\* a run that takes every yielded cycle, better or not
run_improves_always(rmin, ri) == TRUE

\* run's loop body for one yielded cycle ci: the test `r_min > ri`
run_improves(rmin, ri) == FLt(ri, rmin)

\* a loop body that passes over a cycle whose ratio cannot be computed
run_body_swallows(rmin, cmin, ci) ==
    IF total_time(ci) = 0
    THEN [raised |-> FALSE, r_min |-> rmin, c_min |-> cmin]
    ELSE IF run_improves(rmin, zero_cancel(ci))
    THEN [raised |-> FALSE, r_min |-> zero_cancel(ci), c_min |-> ci]
    ELSE [raised |-> FALSE, r_min |-> rmin, c_min |-> cmin]

\* run's loop body for one yielded cycle ci: ri = zero_cancel(ci), which
\* divides by total_time and raises ZeroDivisionError when that is 0;
\* if r_min > ri: r_min = ri; c_min = ci
run_body(rmin, cmin, ci) ==
    IF total_time(ci) = 0
    THEN [raised |-> TRUE, r_min |-> rmin, c_min |-> cmin]
    ELSE IF run_improves(rmin, zero_cancel(ci))
    THEN [raised |-> FALSE, r_min |-> zero_cancel(ci), c_min |-> ci]
    ELSE [raised |-> FALSE, r_min |-> rmin, c_min |-> cmin]

\* assert self.is_negative(...); found = True; yield self.cycle_list(vtx)
\* and the body of the consumer's for loop
howard_yield ==
    /\ hpc = "yield"
    /\ method = "howard"
    /\ handles # <<>>
    /\ LET vtx == Head(handles)
           ci == cycle_list(vtx, pred)
       IN  IF ~is_negative(vtx, dist, pred)
           THEN /\ hpc' = "AssertionError"
                /\ spc' = IF spc = "for" THEN "AssertionError" ELSE spc
                /\ UNCHANGED <<found, yielded, handles, r_min, c_min>>
           ELSE /\ found' = TRUE
                /\ yielded' = Append(yielded, ci)
                /\ handles' = Tail(handles)
                /\ IF spc # "for"
                   THEN UNCHANGED <<hpc, spc, r_min, c_min>>
                   ELSE LET b == run_body(r_min, c_min, ci)
                        IN  /\ r_min' = b.r_min
                            /\ c_min' = b.c_min
                            /\ spc' = IF b.raised THEN "ZeroDivisionError" ELSE spc
                            /\ hpc' = IF b.raised THEN "closed" ELSE hpc
    /\ UNCHANGED <<dist, pred, rounds, ratio, cycle, iters, succ, inputVars, otherVars>>

\* a howard that relaxes again after a round that yielded
howard_continues_always(fnd) == TRUE

\* the while test `not found and ...`
howard_continues(fnd) == ~fnd

\* find_cycle is exhausted: back to the while test
howard_end_round ==
    /\ hpc = "yield"
    /\ method = "howard"
    /\ handles = <<>>
    /\ hpc' = IF howard_continues(found) THEN "relax" ELSE "done"
    /\ UNCHANGED <<dist, pred, found, handles, yielded, rounds, solverVars, succ, inputVars, otherVars>>

----------------------------------------------------------------------------
(* The finder of neg_cycle_q.py: relaxation in both directions behind the  *)
(* update_ok gate.                                                         *)

UpdateFloor == 1

\* the update_ok callables: the tests' _always_ok, the tests'
\* lambda D, d: D > d, and a gate that admits no value below a floor
update_ok_fn(old, new) ==
    CASE update_ok = "always" -> TRUE
      [] update_ok = "old_gt_new" -> FLt(new, old)
      [] update_ok = "floor" -> FLe(FInt(-UpdateFloor), new)
      [] OTHER -> FALSE

\* a relax_pred that also updates on a tie
relax_pred_improves_on_tie(old, new) == FLe(new, old) /\ update_ok_fn(old, new)

\* a relax_pred that does not ask update_ok
relax_pred_improves_ungated(old, new) == FLt(new, old)

\* relax_pred: the test `dist[vtx] > distance and update_ok(dist[vtx], distance)`
relax_pred_improves(old, new) == FLt(new, old) /\ update_ok_fn(old, new)

RECURSIVE relax_pred_from(_, _, _, _)
relax_pred_from(i, d, p, changed) ==
    IF i > Len(digraph) THEN [dist |-> d, pred |-> p, changed |-> changed]
    ELSE LET edge == digraph[i]
             new == FAdd(d[edge.u], get_weight(edge))
         IN  IF relax_pred_improves(d[edge.v], new)
             THEN relax_pred_from(i + 1, [d EXCEPT ![edge.v] = new],
                                  Put(p, edge.v, [node |-> edge.u, edge |-> edge]), TRUE)
             ELSE relax_pred_from(i + 1, d, p, changed)

relax_pred(d, p) == relax_pred_from(1, d, p, FALSE)

\* a relax_succ that compares the way relax_pred does
relax_succ_improves_downward(old, new) == FLt(new, old) /\ update_ok_fn(old, new)

\* a relax_succ that does not ask update_ok
relax_succ_improves_ungated(old, new) == FLt(old, new)

\* relax_succ: the test `dist[utx] < distance and update_ok(dist[utx], distance)`
relax_succ_improves(old, new) == FLt(old, new) /\ update_ok_fn(old, new)

RECURSIVE relax_succ_from(_, _, _, _)
relax_succ_from(i, d, sc, changed) ==
    IF i > Len(digraph) THEN [dist |-> d, succ |-> sc, changed |-> changed]
    ELSE LET edge == digraph[i]
             new == FSub(d[edge.v], get_weight(edge))
         IN  IF relax_succ_improves(d[edge.u], new)
             THEN relax_succ_from(i + 1, [d EXCEPT ![edge.u] = new],
                                  Put(sc, edge.u, [node |-> edge.v, edge |-> edge]), TRUE)
             ELSE relax_succ_from(i + 1, d, sc, changed)

relax_succ(d, sc) == relax_succ_from(1, d, sc, FALSE)

\* a find_cycle that yields on reaching any visited node
closes_cycle_q_any_tag(visited, nxt, vtx) == TRUE

\* find_cycle(point_to): the test `visited[utx] == vtx`
closes_cycle_q(visited, nxt, vtx) == visited[nxt] = vtx

\* find_cycle(point_to): the `while True` walk from one start node
RECURSIVE walk_q(_, _, _, _)
walk_q(utx, vtx, visited, point_to) ==
    LET vis == Put(visited, utx, vtx)
    IN  IF utx \notin DOMAIN point_to THEN [visited |-> vis, out |-> <<>>]
        ELSE LET nxt == point_to[utx].node
             IN  IF nxt \in DOMAIN vis
                 THEN [visited |-> vis,
                       out |-> IF closes_cycle_q(vis, nxt, vtx) THEN <<nxt>> ELSE <<>>]
                 ELSE walk_q(nxt, vtx, vis, point_to)

RECURSIVE find_from_q(_, _, _, _)
find_from_q(vtx, visited, out, point_to) ==
    IF vtx > NumNodes THEN out
    ELSE IF vtx \in DOMAIN visited THEN find_from_q(vtx + 1, visited, out, point_to)
    ELSE LET r == walk_q(vtx, vtx, visited, point_to)
         IN  find_from_q(vtx + 1, r.visited, out \o r.out, point_to)

find_cycle_q(point_to) == find_from_q(1, NoDict, <<>>, point_to)

RECURSIVE cycle_from_q(_, _, _)
cycle_from_q(vtx, handle, point_to) ==
    LET utx == point_to[vtx].node
    IN  <<point_to[vtx].edge>> \o
            (IF utx = handle THEN <<>> ELSE cycle_from_q(utx, handle, point_to))

cycle_list_q(handle, point_to) == cycle_from_q(handle, handle, point_to)

RECURSIVE negative_from_q(_, _, _, _)
negative_from_q(vtx, handle, d, p) ==
    LET utx == p[vtx].node
    IN  IF FLt(FAdd(d[utx], get_weight(p[vtx].edge)), d[vtx]) THEN TRUE
        ELSE IF utx = handle THEN FALSE
        ELSE negative_from_q(utx, handle, d, p)

is_negative_q(handle, d, p) == negative_from_q(handle, handle, d, p)

\* howard_pred: self.pred = {}; found = False
howard_pred_start ==
    /\ hpc = "call"
    /\ method = "howard_pred"
    /\ pred' = NoDict
    /\ found' = FALSE
    /\ handles' = <<>>
    /\ yielded' = <<>>
    /\ rounds' = 0
    /\ hpc' = "relax"
    /\ UNCHANGED <<dist, succ, solverVars, inputVars, otherVars>>

\* howard_pred: while not found and self.relax_pred(...): for vtx in find_cycle(pred)
howard_pred_relax ==
    /\ hpc = "relax"
    /\ method = "howard_pred"
    /\ LET r == relax_pred(dist, pred)
       IN  /\ dist' = r.dist
           /\ pred' = r.pred
           /\ handles' = IF r.changed THEN find_cycle_q(r.pred) ELSE <<>>
           /\ hpc' = IF r.changed THEN "yield" ELSE "done"
    /\ rounds' = Count(rounds)
    /\ UNCHANGED <<succ, found, yielded, solverVars, inputVars, otherVars>>

\* MinParametricSolver.run's loop test `r_max < r_i`
runq_improves(rmax, ri) == FLt(rmax, ri)

\* a loop body that goes on consuming cycles whatever pick_one_only says
runq_body_takes_all(rmax, cmax, ci) ==
    IF total_time(ci) = 0
    THEN [raised |-> TRUE, stop |-> FALSE, r_max |-> rmax, c_max |-> cmax]
    ELSE IF runq_improves(rmax, zero_cancel(ci))
    THEN [raised |-> FALSE, stop |-> FALSE,
          r_max |-> zero_cancel(ci), c_max |-> ci]
    ELSE [raised |-> FALSE, stop |-> FALSE, r_max |-> rmax, c_max |-> cmax]

\* MinParametricSolver.run's loop body for one yielded cycle c_i:
\* r_i = omega.zero_cancel(c_i), which divides by the total time;
\* if r_max < r_i: r_max = r_i; c_max = c_i; if pick_one_only: break
runq_body(rmax, cmax, ci) ==
    IF total_time(ci) = 0
    THEN [raised |-> TRUE, stop |-> FALSE, r_max |-> rmax, c_max |-> cmax]
    ELSE IF runq_improves(rmax, zero_cancel(ci))
    THEN [raised |-> FALSE, stop |-> pick_one_only,
          r_max |-> zero_cancel(ci), c_max |-> ci]
    ELSE [raised |-> FALSE, stop |-> FALSE, r_max |-> rmax, c_max |-> cmax]

\* howard_pred: assert is_negative; found = True; yield cycle_list(vtx, pred)
\* and the body of the consumer's for loop
howard_pred_yield ==
    /\ hpc = "yield"
    /\ method = "howard_pred"
    /\ handles # <<>>
    /\ LET ci == cycle_list_q(Head(handles), pred)
           b == runq_body(r_max, c_max, ci)
       IN  IF ~is_negative_q(Head(handles), dist, pred)
           THEN /\ hpc' = "AssertionError"
                /\ spc' = IF spc = "for" THEN "AssertionError" ELSE spc
                /\ UNCHANGED <<found, yielded, handles, r_max, c_max>>
           ELSE /\ found' = TRUE
                /\ yielded' = Append(yielded, ci)
                /\ handles' = Tail(handles)
                /\ IF spc # "for"
                   THEN UNCHANGED <<hpc, spc, r_max, c_max>>
                   ELSE /\ r_max' = b.r_max
                        /\ c_max' = b.c_max
                        /\ spc' = IF b.raised THEN "ZeroDivisionError" ELSE spc
                        /\ hpc' = IF b.raised \/ b.stop THEN "closed" ELSE hpc
    /\ UNCHANGED <<dist, pred, succ, rounds, ratio, r_min, c_min, cycle, iters,
                   inputVars, sharedVars, weights, reverse, pick_one_only>>

\* howard_pred: find_cycle is exhausted, back to the while test
howard_pred_end_round ==
    /\ hpc = "yield"
    /\ method = "howard_pred"
    /\ handles = <<>>
    /\ hpc' = IF found THEN "done" ELSE "relax"
    /\ UNCHANGED <<dist, pred, succ, found, handles, yielded, rounds, solverVars, inputVars, otherVars>>

\* howard_succ: self.succ = {}; found = False
howard_succ_start ==
    /\ hpc = "call"
    /\ method = "howard_succ"
    /\ succ' = NoDict
    /\ found' = FALSE
    /\ handles' = <<>>
    /\ yielded' = <<>>
    /\ rounds' = 0
    /\ hpc' = "relax"
    /\ UNCHANGED <<dist, pred, solverVars, inputVars, otherVars>>

\* howard_succ: while not found and self.relax_succ(...): for vtx in find_cycle(succ)
howard_succ_relax ==
    /\ hpc = "relax"
    /\ method = "howard_succ"
    /\ LET r == relax_succ(dist, succ)
       IN  /\ dist' = r.dist
           /\ succ' = r.succ
           /\ handles' = IF r.changed THEN find_cycle_q(r.succ) ELSE <<>>
           /\ hpc' = IF r.changed THEN "yield" ELSE "done"
    /\ rounds' = Count(rounds)
    /\ UNCHANGED <<pred, found, yielded, solverVars, inputVars, otherVars>>

\* howard_succ: found = True; yield cycle_list(vtx, succ)
\* and the body of the consumer's for loop
howard_succ_yield ==
    /\ hpc = "yield"
    /\ method = "howard_succ"
    /\ handles # <<>>
    /\ LET ci == cycle_list_q(Head(handles), succ)
           b == runq_body(r_max, c_max, ci)
       IN  /\ found' = TRUE
           /\ yielded' = Append(yielded, ci)
           /\ handles' = Tail(handles)
           /\ IF spc # "for"
              THEN UNCHANGED <<hpc, spc, r_max, c_max>>
              ELSE /\ r_max' = b.r_max
                   /\ c_max' = b.c_max
                   /\ spc' = IF b.raised THEN "ZeroDivisionError" ELSE spc
                   /\ hpc' = IF b.raised \/ b.stop THEN "closed" ELSE hpc
    /\ UNCHANGED <<dist, pred, succ, rounds, ratio, r_min, c_min, cycle, iters,
                   inputVars, sharedVars, weights, reverse, pick_one_only>>

\* howard_succ: find_cycle is exhausted, back to the while test
howard_succ_end_round ==
    /\ hpc = "yield"
    /\ method = "howard_succ"
    /\ handles = <<>>
    /\ hpc' = IF found THEN "done" ELSE "relax"
    /\ UNCHANGED <<dist, pred, succ, found, handles, yielded, rounds, solverVars, inputVars, otherVars>>

----------------------------------------------------------------------------
(* MaxParametricSolver.run *)

\* D = type(next(iter(dist.values()))): next() raises StopIteration when
\* dist has no values
first_value_raises(d) == DOMAIN d = {}

\* D = type(next(iter(dist.values()))); r_min = ratio; c_min = []; cycle = [];
\* ncf = NegCycleFinder(self.digraph)
run_begin ==
    /\ spc = "begin"
    /\ IF first_value_raises(dist)
       THEN /\ spc' = "StopIteration"
            /\ UNCHANGED <<r_min, c_min, cycle, iters, hpc>>
       ELSE /\ r_min' = ratio
            /\ c_min' = <<>>
            /\ cycle' = <<>>
            /\ iters' = 1
            /\ spc' = "for"
            /\ hpc' = "call"
    /\ UNCHANGED <<dist, pred, found, handles, yielded, rounds, ratio, succ, inputVars, otherVars>>

\* a run that goes on when the ratio did not improve
run_stops_strict(rmin, r) == FLt(r, rmin)

\* a run that leaves the loop after the first pass whatever it found
run_stops_always(rmin, r) == TRUE

\* if r_min >= ratio: break
run_stops(rmin, r) == ~FLt(rmin, r)

\* the for loop over howard is over
run_check ==
    /\ spc = "for"
    /\ hpc = "done"
    /\ IF run_stops(r_min, ratio)
       THEN /\ spc' = "returned"
            /\ UNCHANGED <<cycle, ratio, hpc, iters>>
       ELSE /\ cycle' = c_min
            /\ ratio' = r_min
            /\ hpc' = "call"
            /\ iters' = Count(iters)
            /\ spc' = "for"
    /\ UNCHANGED <<dist, pred, found, handles, yielded, rounds, r_min, c_min, succ, inputVars, otherVars>>

----------------------------------------------------------------------------
(* MinParametricSolver.run *)

\* a run that takes howard_succ in every pass
direction_fixed(rev) == "howard_succ"

\* if reverse: cycles = ncf.howard_succ(...) else: cycles = ncf.howard_pred(...)
direction(rev) == IF rev THEN "howard_succ" ELSE "howard_pred"

\* D = type(next(iter(dist.values()))); r_max = ratio; c_max = []; cycle = [];
\* reverse = True; ncf = NegCycleFinder(self.digraph); first pass of `while True`
runq_begin ==
    /\ spc = "begin"
    /\ IF first_value_raises(dist)
       THEN /\ spc' = "StopIteration"
            /\ UNCHANGED <<r_max, c_max, cycle, iters, hpc, reverse, method>>
       ELSE /\ r_max' = ratio
            /\ c_max' = <<>>
            /\ cycle' = <<>>
            /\ reverse' = TRUE
            /\ method' = direction(TRUE)
            /\ iters' = 1
            /\ spc' = "for"
            /\ hpc' = "call"
    /\ UNCHANGED <<dist, pred, succ, found, handles, yielded, rounds, ratio, r_min, c_min,
                   digraph, weightfn, dtype, r0, update_ok, sharedVars, weights,
                   pick_one_only>>

\* a run that goes on when the ratio did not improve
runq_stops_below(rmax, r) == FLt(rmax, r)

\* if r_max <= ratio: break
runq_stops(rmax, r) == FLe(rmax, r)

\* the for loop over cycles is over: the break test, then
\* cycle = c_max; ratio = r_max; reverse = not reverse and the next pass
runq_check ==
    /\ spc = "for"
    /\ hpc \in {"done", "closed"}
    /\ IF runq_stops(r_max, ratio)
       THEN /\ spc' = "returned"
            /\ UNCHANGED <<cycle, ratio, hpc, iters, reverse, method>>
       ELSE /\ cycle' = c_max
            /\ ratio' = r_max
            /\ reverse' = ~reverse
            /\ method' = direction(~reverse)
            /\ hpc' = "call"
            /\ iters' = Count(iters)
            /\ spc' = "for"
    /\ UNCHANGED <<dist, pred, succ, found, handles, yielded, rounds, r_min, c_min,
                   r_max, c_max, digraph, weightfn, dtype, r0, update_ok, sharedVars,
                   weights, pick_one_only>>

----------------------------------------------------------------------------
(* The simple cycles of a graph, each as the sequence of its edges. *)

NodeSeqs ==
    {s \in UNION {[1..k -> Nodes] : k \in 1..NumNodes} :
        \A i, j \in 1..Len(s) : i # j => s[i] # s[j] /\ s[1] <= s[i]}

HasEdge(g, a, b) == \E i \in 1..Len(g) : g[i].u = a /\ g[i].v = b
EdgeOf(g, a, b) == g[CHOOSE i \in 1..Len(g) : g[i].u = a /\ g[i].v = b]
NextIn(s, i) == s[(i % Len(s)) + 1]
CyclesOf(g) ==
    {[i \in 1..Len(s) |-> EdgeOf(g, s[i], NextIn(s, i))] :
        s \in {t \in NodeSeqs : \A i \in 1..Len(t) : HasEdge(g, t[i], NextIn(t, i))}}

----------------------------------------------------------------------------
(* The parts of the state a specification does not use keep these values. *)

SharedIdle == cls_pred = << >> /\ inst_pred = << >> /\ inst_dist = << >> /\ calls = << >>
OracleIdle == weights = << >>
MinIdle == r_max = <<0, 1>> /\ c_max = << >> /\ reverse = TRUE /\ pick_one_only = FALSE

----------------------------------------------------------------------------
(* Specifications *)

\* cycles = list(finder.howard(dist, lambda edge: edge["weight"]))
Init ==
    /\ \E shape \in GraphShapes :
         \E costs \in [1..Len(shape) -> Costs] :
            digraph = MkGraph(shape, costs, [i \in 1..Len(shape) |-> 1])
    /\ weightfn = "weight"
    /\ dtype = "int"
    /\ \E d0 \in [Nodes -> 0..MaxDist0] : dist = [n \in Nodes |-> FInt(d0[n])]
    /\ pred = NoDict
    /\ succ = NoDict
    /\ method = "howard"
    /\ update_ok = "none"
    /\ found = FALSE
    /\ handles = <<>>
    /\ yielded = <<>>
    /\ rounds = 0
    /\ hpc = "call"
    /\ ratio = FInt(0)
    /\ r0 = FInt(0)
    /\ r_min = FInt(0)
    /\ c_min = <<>>
    /\ cycle = <<>>
    /\ spc = "none"
    /\ iters = 0
    /\ SharedIdle /\ OracleIdle /\ MinIdle

Next ==
    \/ howard_start
    \/ howard_relax
    \/ howard_yield
    \/ howard_end_round

Spec == Init /\ [][Next]_vars

\* cycles = list(finder.howard(...)), list(finder.howard_pred(..., update_ok))
\* or list(finder.howard_succ(..., update_ok))
InitFinders ==
    /\ \E shape \in GraphShapes :
         \E costs \in [1..Len(shape) -> Costs] :
            digraph = MkGraph(shape, costs, [i \in 1..Len(shape) |-> 1])
    /\ weightfn = "weight"
    /\ dtype = "int"
    /\ \E d0 \in [Nodes -> 0..MaxDist0] : dist = [n \in Nodes |-> FInt(d0[n])]
    /\ pred = NoDict
    /\ succ = NoDict
    /\ \/ method = "howard" /\ update_ok = "none"
       \/ /\ method \in {"howard_pred", "howard_succ"}
          /\ update_ok \in {"always", "old_gt_new", "floor"}
    /\ found = FALSE
    /\ handles = <<>>
    /\ yielded = <<>>
    /\ rounds = 0
    /\ hpc = "call"
    /\ ratio = FInt(0)
    /\ r0 = FInt(0)
    /\ r_min = FInt(0)
    /\ c_min = <<>>
    /\ cycle = <<>>
    /\ spc = "none"
    /\ iters = 0
    /\ SharedIdle /\ OracleIdle /\ MinIdle

NextFinders ==
    \/ howard_start
    \/ howard_relax
    \/ howard_yield
    \/ howard_end_round
    \/ howard_pred_start
    \/ howard_pred_relax
    \/ howard_pred_yield
    \/ howard_pred_end_round
    \/ howard_succ_start
    \/ howard_succ_relax
    \/ howard_succ_yield
    \/ howard_succ_end_round

SpecFinders == InitFinders /\ [][NextFinders]_vars

\* MinCycleRatioSolver(digraph).run(dist, r0) with Fraction dist, all zero
InitRun ==
    /\ \E shape \in GraphShapes :
         \E costs \in [1..Len(shape) -> Costs] :
            \E times \in [1..Len(shape) -> Times] :
               digraph = MkGraph(shape, costs, times)
    /\ weightfn = "omega"
    /\ dtype = "Fraction"
    /\ dist = [n \in Nodes |-> FInt(0)]
    /\ pred = NoDict
    /\ succ = NoDict
    /\ method = "howard"
    /\ update_ok = "none"
    /\ found = FALSE
    /\ handles = <<>>
    /\ yielded = <<>>
    /\ rounds = 0
    /\ hpc = "idle"
    /\ \E k \in {0, MaxRatio0} : ratio = FInt(k) /\ r0 = FInt(k)
    /\ r_min = FInt(0)
    /\ c_min = <<>>
    /\ cycle = <<>>
    /\ spc = "begin"
    /\ iters = 0
    /\ SharedIdle /\ OracleIdle /\ MinIdle

NextRun ==
    \/ run_begin
    \/ howard_start
    \/ howard_relax
    \/ howard_yield
    \/ howard_end_round
    \/ run_check

SpecRun == InitRun /\ [][NextRun]_vars

\* the same call on graphs whose edges may take no time, as long as every
\* cycle takes some
TermTimes == 0..1

InitTerm ==
    /\ \E shape \in GraphShapes :
         \E costs \in [1..Len(shape) -> Costs] :
            \E times \in [1..Len(shape) -> TermTimes] :
               /\ digraph = MkGraph(shape, costs, times)
               /\ \A cyc \in CyclesOf(MkGraph(shape, costs, times)) :
                     total_time(cyc) > 0
    /\ weightfn = "omega"
    /\ dtype = "Fraction"
    /\ dist = [n \in Nodes |-> FInt(0)]
    /\ pred = NoDict
    /\ succ = NoDict
    /\ method = "howard"
    /\ update_ok = "none"
    /\ found = FALSE
    /\ handles = <<>>
    /\ yielded = <<>>
    /\ rounds = 0
    /\ hpc = "idle"
    /\ ratio = FInt(MaxRatio0) /\ r0 = FInt(MaxRatio0)
    /\ r_min = FInt(0)
    /\ c_min = <<>>
    /\ cycle = <<>>
    /\ spc = "begin"
    /\ iters = 0
    /\ SharedIdle /\ OracleIdle /\ MinIdle

SpecTerm == InitTerm /\ [][NextRun]_vars

----------------------------------------------------------------------------
(* The graph's simple cycles, for the statements below. *)

SimpleCycles == CyclesOf(digraph)

RECURSIVE WeightOf(_)
WeightOf(cyc) ==
    IF cyc = <<>> THEN FInt(0) ELSE FAdd(get_weight(Head(cyc)), WeightOf(Tail(cyc)))

IsNegativeCycle(cyc) == FLt(WeightOf(cyc), FInt(0))
HasNegativeCycle == \E cyc \in SimpleCycles : IsNegativeCycle(cyc)
EdgeSet(cyc) == {cyc[i] : i \in 1..Len(cyc)}
Feasible(p) ==
    \A v \in DOMAIN p : FLe(dist[v], FAdd(dist[p[v].node], get_weight(p[v].edge)))
AllEdgesFeasible ==
    \A i \in 1..Len(digraph) :
        FLe(dist[digraph[i].v], FAdd(dist[digraph[i].u], get_weight(digraph[i])))
NegativeSelfLoops == {cyc \in SimpleCycles : Len(cyc) = 1 /\ IsNegativeCycle(cyc)}

----------------------------------------------------------------------------
(* Statements about NegCycleFinder.howard *)

\* C1: every cycle howard yields has a strictly negative total weight under
\* get_weight; a cycle of total weight 0 is never yielded.
YieldedCyclesAreNegative ==
    \A i \in 1..Len(yielded) : IsNegativeCycle(yielded[i])

\* C1 witness: howard_pred behind a gate that refused an update yielded a
\* cycle of a graph that also has a cycle of weight zero
WitnessNegativeYielded ==
    /\ yielded # <<>> /\ method = "howard_pred" /\ update_ok = "floor"
    /\ \E cyc \in SimpleCycles : WeightOf(cyc) = FInt(0)
    /\ rounds >= 2

\* C2: howard comes to an end without failing, after at most one relaxation
\* round per node, and by then it has yielded a cycle exactly if the graph
\* has a cycle of negative total weight, wherever in the graph it lies.
DetectionIsExact ==
    /\ hpc \in {"call", "relax", "yield", "done"}
    /\ rounds <= NumNodes
    /\ hpc = "done" => ((yielded # <<>>) <=> HasNegativeCycle)

\* C2 witness: a negative cycle that the first relaxation round did not yet
\* put into pred was detected in a later round
WitnessDetectedLate ==
    hpc = "done" /\ yielded # <<>> /\ rounds >= 2

\* C3: without a negative cycle howard comes to an end after finitely many
\* relaxation rounds (at most one per node; howard is never anywhere but at
\* one of its resumption points, each of which has a next step, or at its
\* end), yields nothing, and leaves every edge (u,v,e) with
\* dist[v] <= dist[u] + w(e).
NoNegativeCycleTerminatesFeasible ==
    (~HasNegativeCycle) =>
        /\ rounds <= NumNodes
        /\ yielded = <<>>
        /\ hpc \in {"call", "relax", "yield", "done"}
        /\ hpc = "done" => AllEdgesFeasible

\* C3 witness: howard ended on a graph with a cycle, none negative, after
\* rounds that changed dist
WitnessFeasibleEnd ==
    /\ hpc = "done" /\ ~HasNegativeCycle /\ SimpleCycles # {}
    /\ rounds >= 3 /\ yielded = <<>>

\* C4 as stated: after howard has ended, yielded or not, every pred entry
\* (u, e) of v satisfies dist[v] <= dist[u] + w(e).
PredFeasibleAfterHoward ==
    hpc = "done" => Feasible(pred)

\* C4 amended: after howard has ended without yielding a cycle, every pred
\* entry (u, e) of v satisfies dist[v] <= dist[u] + w(e).
PredFeasibleAfterHowardWithoutCycle ==
    (hpc = "done" /\ yielded = <<>>) => Feasible(pred)

\* C4 witness: howard ended without a cycle and pred has entries
WitnessPredFeasible ==
    hpc = "done" /\ yielded = <<>> /\ Cardinality(DOMAIN pred) >= 2

\* C5 as stated: one howard invocation yields at most one cycle.
AtMostOneCycleYielded ==
    Len(yielded) <= 1

\* C5 amended: once a cycle has been yielded no further relaxation round is
\* run (dist and pred stay as they are), so all the cycles of one invocation
\* come from one round; they may be several.
NoRelaxationAfterYield ==
    [][found => (dist' = dist /\ pred' = pred /\ rounds' = rounds)]_vars

\* C5 witness: one invocation has yielded two cycles
WitnessTwoCyclesYielded ==
    Len(yielded) = 2 /\ hpc = "done"

\* C6: no two cycles yielded by one invocation are the same cycle of the graph
\* (the same edges, from whichever handle they are listed).
YieldedCyclesAreDistinct ==
    \A i, j \in 1..Len(yielded) : i # j => EdgeSet(yielded[i]) # EdgeSet(yielded[j])

\* C6 witness: howard_succ yielded two cycles, one of them longer than a
\* self-loop
WitnessDistinctCycles ==
    /\ method = "howard_succ"
    /\ Len(yielded) >= 2 /\ \E i \in 1..Len(yielded) : Len(yielded[i]) >= 2

\* C7 as stated: for every negative self-loop e of the graph, howard yields
\* the one-edge cycle [e].
EveryNegativeSelfLoopYielded ==
    hpc = "done" =>
        \A sl \in NegativeSelfLoops : \E i \in 1..Len(yielded) : yielded[i] = sl

\* C7 amended: a graph with a negative self-loop makes howard yield a cycle,
\* and when the self-loop e is the graph's only negative cycle howard yields
\* the one-edge cycle [e] and nothing else.
NegativeSelfLoopDetected ==
    hpc = "done" =>
        \A sl \in NegativeSelfLoops :
            /\ yielded # <<>>
            /\ (\A cyc \in SimpleCycles : IsNegativeCycle(cyc) => cyc = sl)
                   => yielded = <<sl>>

\* C7 witness: the only negative cycle is a self-loop on a node that other
\* edges enter, and it was yielded
WitnessSelfLoopYielded ==
    /\ hpc = "done"
    /\ \E sl \in NegativeSelfLoops :
          /\ yielded = <<sl>>
          /\ \E i \in 1..Len(digraph) : digraph[i].v = sl[1].v /\ digraph[i].u # sl[1].u
          /\ Cardinality(SimpleCycles) >= 2

----------------------------------------------------------------------------
(* Statements about MaxParametricSolver.run with the cycle ratio oracle *)

CycleRatios == {zero_cancel(cyc) : cyc \in SimpleCycles}
MinCycleRatio == CHOOSE r \in CycleRatios : \A q \in CycleRatios : FLe(r, q)
AllCyclesTakeTime == \A cyc \in SimpleCycles : total_time(cyc) > 0

\* C8: run, called with r0 above the minimum cycle ratio, fails in no way
\* and returns exactly the minimum of cost/time over the simple cycles of the
\* graph, with a cycle of the graph that has this ratio.
RunReturnsMinCycleRatio ==
    (spc \notin {"begin", "for"} /\ SimpleCycles # {} /\ FLt(MinCycleRatio, r0)) =>
        /\ spc = "returned"
        /\ ratio = MinCycleRatio
        /\ \E cyc \in SimpleCycles :
              /\ EdgeSet(cyc) = EdgeSet(cycle) /\ Len(cyc) = Len(cycle)
              /\ zero_cancel(cycle) = MinCycleRatio

\* C8 witness: run returned the minimum, a negative ratio, after improving
\* the ratio more than once
WitnessMinCycleRatio ==
    /\ spc = "returned" /\ iters >= 3
    /\ Cardinality(CycleRatios) >= 2
    /\ ratio = MinCycleRatio /\ FLt(ratio, FInt(0))

\* C9: whenever run's outer loop goes round again the new ratio is strictly
\* smaller than the one before, and the ratio is never above r0.
RatioStrictlyDecreases ==
    [][/\ (spc = "for" /\ hpc = "done" /\ spc' = "for") => FLt(ratio', ratio)
       /\ FLe(ratio', r0)]_vars

\* C9 witness: the ratio went down twice before run returned
WitnessRatioDecreased ==
    spc = "returned" /\ iters >= 3 /\ FLt(ratio, r0)

\* C10: run comes to an end when every cycle takes time: it is only ever at
\* one of its resumption points, each of which has a next step, or has
\* returned; it starts at most one outer iteration per distinct cycle ratio
\* and one more, and no howard invocation relaxes more than once per node.
RunTerminates ==
    /\ spc \in {"begin", "for", "returned"}
    /\ spc = "begin" => hpc = "idle"
    /\ spc = "for" => hpc \in {"call", "relax", "yield", "done"}
    /\ rounds <= NumNodes
    /\ iters >= 2 => iters <= Cardinality(CycleRatios) + 1

\* C10 witness: run returned after three outer iterations on a graph with an
\* edge that takes no time
WitnessRunTerminated ==
    /\ spc = "returned" /\ iters >= 3
    /\ \E i \in 1..Len(digraph) : digraph[i].time = 0

\* the graph has a cycle that is negative under the weights of the ratio r0
NegativeUnderR0 ==
    \E cyc \in SimpleCycles :
        FLt(FSub(FInt(total_cost(cyc)), FMul(r0, FInt(total_time(cyc)))), FInt(0))

\* C11: what run returns: the initial ratio r0 and an empty cycle when no
\* cycle is negative under the weights of r0; otherwise a ratio strictly
\* below r0 and a non-empty cycle whose zero_cancel is the returned ratio.
RunResultShape ==
    spc = "returned" =>
        IF NegativeUnderR0
        THEN /\ FLt(ratio, r0)
             /\ cycle # <<>>
             /\ total_time(cycle) # 0
             /\ zero_cancel(cycle) = ratio
        ELSE ratio = r0 /\ cycle = <<>>

\* C11 witness: run returned a cycle of two or more edges after improving
\* the ratio twice
WitnessResultShape ==
    /\ spc = "returned" /\ iters >= 3
    /\ Len(cycle) >= 2 /\ FLt(ratio, r0)

----------------------------------------------------------------------------
(* run with integer dist: every weight is cast by int() *)

\* MinCycleRatioSolver(digraph).run(dist, r0) with int dist, all zero
InitCast ==
    /\ \E shape \in GraphShapes :
         \E costs \in [1..Len(shape) -> Costs] :
            \E times \in [1..Len(shape) -> Times] :
               digraph = MkGraph(shape, costs, times)
    /\ weightfn = "omega"
    /\ dtype = "int"
    /\ dist = [n \in Nodes |-> FInt(0)]
    /\ pred = NoDict
    /\ succ = NoDict
    /\ method = "howard"
    /\ update_ok = "none"
    /\ found = FALSE
    /\ handles = <<>>
    /\ yielded = <<>>
    /\ rounds = 0
    /\ hpc = "idle"
    /\ \E k \in {0, MaxRatio0} : ratio = FInt(k) /\ r0 = FInt(k)
    /\ r_min = FInt(0)
    /\ c_min = <<>>
    /\ cycle = <<>>
    /\ spc = "begin"
    /\ iters = 0
    /\ SharedIdle /\ OracleIdle /\ MinIdle

SpecCast == InitCast /\ [][NextRun]_vars

\* what the same run returns with rational dist: the minimum cycle ratio
\* when that is below r0, else r0
ExactAnswer ==
    IF SimpleCycles # {} /\ FLt(MinCycleRatio, r0) THEN MinCycleRatio ELSE r0

\* C12: with integer dist, all zero, run returns the ratio that the run with
\* rational dist returns, the exact minimum cycle ratio when that is below r0.
CastKeepsAnswer ==
    (spc = "returned" /\ dtype = "int") => ratio = ExactAnswer

----------------------------------------------------------------------------
(* The iteration cap *)

\* the largest number of outer iterations a caller allows run
IterationCap == 2

\* C13: run starts no more outer iterations than the cap the caller allows,
\* and returns what it has so far when the cap is reached.
IterationCapRespected ==
    spc \in {"for", "returned"} => iters <= IterationCap

----------------------------------------------------------------------------
(* run on the edge cases: an empty graph with an empty dist, and edges     *)
(* (so possibly cycles) that take no time                                  *)

\* MinCycleRatioSolver(digraph).run(dist, r0) with dist = {} on the empty
\* graph, or with Fraction dist, all zero, on a graph with times 0 or 1
InitEdge ==
    /\ \/ digraph = <<>> /\ dist = NoDict
       \/ /\ \E shape \in GraphShapes :
               \E costs \in [1..Len(shape) -> Costs] :
                  \E times \in [1..Len(shape) -> TermTimes] :
                     digraph = MkGraph(shape, costs, times)
          /\ dist = [n \in Nodes |-> FInt(0)]
    /\ weightfn = "omega"
    /\ dtype = "Fraction"
    /\ pred = NoDict
    /\ succ = NoDict
    /\ method = "howard"
    /\ update_ok = "none"
    /\ found = FALSE
    /\ handles = <<>>
    /\ yielded = <<>>
    /\ rounds = 0
    /\ hpc = "idle"
    /\ \E k \in {0, MaxRatio0} : ratio = FInt(k) /\ r0 = FInt(k)
    /\ r_min = FInt(0)
    /\ c_min = <<>>
    /\ cycle = <<>>
    /\ spc = "begin"
    /\ iters = 0
    /\ SharedIdle /\ OracleIdle /\ MinIdle

SpecEdge == InitEdge /\ [][NextRun]_vars

\* howard is about to yield, to run's loop, a cycle that takes no time
YieldsTimelessCycle ==
    /\ spc = "for" /\ hpc = "yield" /\ handles # <<>>
    /\ total_time(cycle_list(Head(handles), pred)) = 0

\* C14: when the finder yields a cycle whose total time is 0, run ends in
\* the division error of zero_cancel: it keeps ratio and cycle as they were,
\* takes no further step, and so never returns a result.
OracleFailureSurfaces ==
    [][/\ YieldsTimelessCycle =>
            (spc' = "ZeroDivisionError" /\ ratio' = ratio /\ cycle' = cycle)
       /\ spc # "ZeroDivisionError"]_vars

\* C14 witness: run failed in its second outer iteration, after a first one
\* that improved the ratio
WitnessOracleFailure ==
    /\ spc = "ZeroDivisionError" /\ iters >= 2
    /\ FLt(ratio, r0) /\ cycle # <<>>

\* C15: on the empty graph with an empty dist, run raises nothing and
\* returns r0 and an empty cycle.
EmptyGraphReturnsInitial ==
    (digraph = <<>> /\ DOMAIN dist = {}) =>
        /\ spc \in {"begin", "for", "returned"}
        /\ spc = "returned" => (ratio = r0 /\ cycle = <<>>)

----------------------------------------------------------------------------
(* Two NegCycleFinder instances on one graph.  `pred` is assigned in the   *)
(* class body, so an instance reads and mutates the dict of the class      *)
(* until howard gives it an attribute of its own (self.pred = {}).         *)

MaxCalls == 3
Finders == 1..2

\* self.pred: the instance's attribute if it has one, else the class's
PredOf(f) == IF inst_pred[f].own THEN inst_pred[f].pred ELSE cls_pred

\* finder.relax(dist, get_weight), called directly: self.pred[vtx] = ...
\* mutates the dict that self.pred resolves to
call_relax(f) ==
    /\ Len(calls) < MaxCalls
    /\ LET r == relax(inst_dist[f], PredOf(f))
       IN  /\ inst_dist' = [inst_dist EXCEPT ![f] = r.dist]
           /\ IF inst_pred[f].own
              THEN /\ inst_pred' = [inst_pred EXCEPT ![f].pred = r.pred]
                   /\ UNCHANGED cls_pred
              ELSE /\ cls_pred' = r.pred
                   /\ UNCHANGED inst_pred
    /\ calls' = Append(calls, [finder |-> f, op |-> "relax"])
    /\ UNCHANGED <<dist, pred, succ, found, handles, hpc, yielded, rounds,
                   solverVars, inputVars, weights, minVars>>

\* howard consumed to its end: the rounds of `while not found and
\* self.relax(...)`, each followed by find_cycle
RECURSIVE howard_rounds(_, _)
howard_rounds(d, p) ==
    LET r == relax(d, p)
    IN  IF ~r.changed \/ find_cycle(r.pred) # <<>>
        THEN [dist |-> r.dist, pred |-> r.pred]
        ELSE howard_rounds(r.dist, r.pred)

\* list(finder.howard(dist, get_weight)): self.pred = {} binds a new dict
\* to the instance, which the relaxation rounds then fill
call_howard(f) ==
    /\ Len(calls) < MaxCalls
    /\ LET r == howard_rounds(inst_dist[f], NoDict)
       IN  /\ inst_dist' = [inst_dist EXCEPT ![f] = r.dist]
           /\ inst_pred' = [inst_pred EXCEPT ![f] = [own |-> TRUE, pred |-> r.pred]]
    /\ calls' = Append(calls, [finder |-> f, op |-> "howard"])
    /\ UNCHANGED <<cls_pred, dist, pred, succ, found, handles, hpc, yielded, rounds,
                   solverVars, inputVars, weights, minVars>>

\* two finders constructed on the same graph, each with its own dist, all zero
InitShared ==
    /\ \E shape \in GraphShapes :
         \E costs \in [1..Len(shape) -> Costs] :
            digraph = MkGraph(shape, costs, [i \in 1..Len(shape) |-> 1])
    /\ weightfn = "weight"
    /\ dtype = "int"
    /\ dist = [n \in Nodes |-> FInt(0)]
    /\ pred = NoDict
    /\ succ = NoDict
    /\ method = "howard"
    /\ update_ok = "none"
    /\ found = FALSE
    /\ handles = <<>>
    /\ yielded = <<>>
    /\ rounds = 0
    /\ hpc = "idle"
    /\ ratio = FInt(0)
    /\ r0 = FInt(0)
    /\ r_min = FInt(0)
    /\ c_min = <<>>
    /\ cycle = <<>>
    /\ spc = "none"
    /\ iters = 0
    /\ cls_pred = NoDict
    /\ inst_pred = [f \in Finders |-> [own |-> FALSE, pred |-> NoDict]]
    /\ inst_dist = [f \in Finders |-> [n \in Nodes |-> FInt(0)]]
    /\ calls = <<>>
    /\ OracleIdle /\ MinIdle

NextShared ==
    \/ \E f \in Finders : call_relax(f)
    \/ \E f \in Finders : call_howard(f)

SpecShared == InitShared /\ [][NextShared]_vars

\* C16: no call on one finder instance changes the pred map that is seen
\* through the other instance.
PredIsPrivate ==
    [][\A f \in Finders :
          (calls' # calls /\ calls'[Len(calls')].finder # f) =>
              (IF inst_pred'[f].own THEN inst_pred'[f].pred ELSE cls_pred') = PredOf(f)]_vars

----------------------------------------------------------------------------
(* The cycle ratio oracle on its own: CycleRatioAPI(gra, Fraction), its    *)
(* zero_cancel and distance applied to an edge list and a ratio            *)

OracleTimes == (-1)..MaxTime
OracleRatios == {Frac(n, d) : n \in (-MaxRatio0)..MaxRatio0, d \in 1..2}
EdgeLists ==
    UNION {[1..k -> [u : {1}, v : {1}, cost : Costs, time : OracleTimes]] :
              k \in 0..MaxEdges}

\* ratio = omega.zero_cancel(cycle)
oracle_zero_cancel ==
    /\ spc = "oracle"
    /\ IF total_time(cycle) = 0
       THEN spc' = "ZeroDivisionError" /\ UNCHANGED ratio
       ELSE spc' = "zero_cancel" /\ ratio' = zero_cancel(cycle)
    /\ UNCHANGED <<dist, pred, succ, found, handles, hpc, yielded, rounds,
                   r_min, c_min, cycle, iters, inputVars, sharedVars, weights, minVars>>

\* [omega.distance(ratio, edge) for edge in cycle], at the ratio given or
\* at the one zero_cancel returned
oracle_distance ==
    /\ spc \in {"oracle", "zero_cancel"}
    /\ weights' = [i \in 1..Len(cycle) |-> distance(ratio, cycle[i])]
    /\ spc' = IF spc = "oracle" THEN "distance" ELSE "cancelled"
    /\ UNCHANGED <<dist, pred, succ, found, handles, hpc, yielded, rounds, ratio,
                   r_min, c_min, cycle, iters, inputVars, sharedVars, minVars>>

InitOracle ==
    /\ cycle \in EdgeLists
    /\ ratio \in OracleRatios
    /\ spc = "oracle"
    /\ weights = <<>>
    /\ digraph = <<>>
    /\ weightfn = "omega"
    /\ dtype = "Fraction"
    /\ dist = [n \in Nodes |-> FInt(0)]
    /\ pred = NoDict
    /\ succ = NoDict
    /\ method = "none"
    /\ update_ok = "none"
    /\ found = FALSE
    /\ handles = <<>>
    /\ yielded = <<>>
    /\ rounds = 0
    /\ hpc = "idle"
    /\ r0 = FInt(0)
    /\ r_min = FInt(0)
    /\ c_min = <<>>
    /\ iters = 0
    /\ SharedIdle /\ MinIdle

NextOracle ==
    \/ oracle_zero_cancel
    \/ oracle_distance

SpecOracle == InitOracle /\ [][NextOracle]_vars

RECURSIVE WeightSum(_)
WeightSum(ws) == IF ws = <<>> THEN FInt(0) ELSE FAdd(Head(ws), WeightSum(Tail(ws)))

\* C17: for an edge list whose total time is not 0, zero_cancel is the
\* fraction (sum of cost) / (sum of time); distance(r, e) is the fraction
\* cost(e) - r * time(e); and the distances at r = zero_cancel(C) add up to 0.
OracleAlgebra ==
    /\ spc \in {"zero_cancel", "cancelled"} =>
          /\ total_time(cycle) # 0
          /\ ratio[2] > 0
          /\ ratio[1] * total_time(cycle) = total_cost(cycle) * ratio[2]
    /\ spc \in {"distance", "cancelled"} =>
          \A i \in 1..Len(cycle) :
             /\ weights[i][2] > 0
             /\ weights[i][1] * ratio[2] =
                   (cycle[i].cost * ratio[2] - ratio[1] * cycle[i].time) * weights[i][2]
    /\ spc = "cancelled" => WeightSum(weights) = FInt(0)

\* C17 witness: the distances of a list of three edges were taken at its
\* ratio, which is not a whole number
WitnessOracleAlgebra ==
    /\ spc = "cancelled" /\ Len(cycle) >= 3 /\ ratio[2] > 1
    /\ \E i \in 1..Len(cycle) : weights[i][1] # 0

----------------------------------------------------------------------------
(* Statements about the finder of neg_cycle_q.py *)

EdgesOfGraph == {digraph[i] : i \in 1..Len(digraph)}
SameEntry(p, q, v) ==
    /\ (v \in DOMAIN p) = (v \in DOMAIN q)
    /\ v \in DOMAIN p => p[v] = q[v]

\* C18: one pass of relax_pred changes dist[v] and pred[v] only by an update
\* along an edge (u,v,e) to a strictly smaller value that update_ok admits,
\* the value dist[u] + w(e) at the time of the update; one pass of
\* relax_succ changes dist[u] and succ[u] only by an update along an edge
\* (u,v,e) to a strictly larger value that update_ok admits, dist[v] - w(e);
\* every other entry of dist, pred and succ stays as it was.
AdmissibleUpdates ==
    [][(hpc = "relax" /\ method \in {"howard_pred", "howard_succ"}) =>
          IF method = "howard_pred"
          THEN /\ succ' = succ
               /\ \A v \in Nodes :
                    IF dist'[v] = dist[v] THEN SameEntry(pred', pred, v)
                    ELSE /\ FLt(dist'[v], dist[v])
                         /\ update_ok_fn(dist[v], dist'[v])
                         /\ v \in DOMAIN pred'
                         /\ pred'[v].edge \in EdgesOfGraph
                         /\ pred'[v].edge.v = v
                         /\ pred'[v].edge.u = pred'[v].node
                         /\ FLe(FAdd(dist'[pred'[v].node], get_weight(pred'[v].edge)),
                                dist'[v])
                         /\ FLe(dist'[v],
                                FAdd(dist[pred'[v].node], get_weight(pred'[v].edge)))
          ELSE /\ pred' = pred
               /\ \A u \in Nodes :
                    IF dist'[u] = dist[u] THEN SameEntry(succ', succ, u)
                    ELSE /\ FLt(dist[u], dist'[u])
                         /\ update_ok_fn(dist[u], dist'[u])
                         /\ u \in DOMAIN succ'
                         /\ succ'[u].edge \in EdgesOfGraph
                         /\ succ'[u].edge.u = u
                         /\ succ'[u].edge.v = succ'[u].node
                         /\ FLe(FSub(dist[succ'[u].node], get_weight(succ'[u].edge)),
                                dist'[u])
                         /\ FLe(dist'[u],
                                FSub(dist'[succ'[u].node], get_weight(succ'[u].edge)))]_vars

\* C18 witness: howard_pred came to its end, after passes that updated
\* dist, with an edge left that offers a strictly smaller value which
\* update_ok refuses
WitnessGateRefused ==
    /\ method = "howard_pred" /\ update_ok = "floor"
    /\ hpc = "done" /\ rounds >= 2
    /\ \E e \in EdgesOfGraph :
          /\ FLt(FAdd(dist[e.u], get_weight(e)), dist[e.v])
          /\ ~update_ok_fn(dist[e.v], FAdd(dist[e.u], get_weight(e)))
    /\ \E v \in Nodes : FLt(dist[v], FInt(0))

\* C19: with update_ok always true, howard_pred and howard_succ detect the
\* same thing: each of them, once exhausted, has yielded a cycle exactly when
\* the graph has a negative cycle (and neither fails on the way).
DirectionsAgree ==
    (update_ok = "always" /\ method \in {"howard_pred", "howard_succ"}) =>
        /\ hpc \in {"call", "relax", "yield", "done"}
        /\ hpc = "done" => ((yielded # <<>>) <=> HasNegativeCycle)

\* C19 witness: howard_succ found a negative cycle in its second pass or later
WitnessSuccDetects ==
    /\ method = "howard_succ" /\ update_ok = "always"
    /\ hpc = "done" /\ yielded # <<>> /\ rounds >= 2

----------------------------------------------------------------------------
(* MinParametricSolver.run with the tests' oracle (distance = cost - ratio *)
(* * time, zero_cancel = total cost / total time)                          *)

MinTimes == {-1, 1}

\* MinParametricSolver(digraph, MyAPI()).run(dist, r0, update_ok, pick_one_only)
\* with Fraction dist, all zero
InitMin ==
    /\ \E shape \in GraphShapes :
         \E costs \in [1..Len(shape) -> Costs] :
            \E times \in [1..Len(shape) -> MinTimes] :
               digraph = MkGraph(shape, costs, times)
    /\ weightfn = "omega"
    /\ dtype = "Fraction"
    /\ dist = [n \in Nodes |-> FInt(0)]
    /\ pred = NoDict
    /\ succ = NoDict
    /\ method = "none"
    /\ update_ok \in {"always", "old_gt_new"}
    /\ found = FALSE
    /\ handles = <<>>
    /\ yielded = <<>>
    /\ rounds = 0
    /\ hpc = "idle"
    /\ ratio = FInt(-MaxRatio0) /\ r0 = FInt(-MaxRatio0)
    /\ r_min = FInt(0)
    /\ c_min = <<>>
    /\ cycle = <<>>
    /\ spc = "begin"
    /\ iters = 0
    /\ r_max = FInt(0)
    /\ c_max = <<>>
    /\ reverse = TRUE
    /\ pick_one_only \in BOOLEAN
    /\ SharedIdle /\ OracleIdle

NextMin ==
    \/ runq_begin
    \/ howard_pred_start
    \/ howard_pred_relax
    \/ howard_pred_yield
    \/ howard_pred_end_round
    \/ howard_succ_start
    \/ howard_succ_relax
    \/ howard_succ_yield
    \/ howard_succ_end_round
    \/ runq_check

SpecMin == InitMin /\ [][NextMin]_vars

\* C20: MinParametricSolver.run only moves its ratio up: whenever the outer
\* loop goes round again the new ratio is strictly larger than the one
\* before, the ratio is never below the initial one, and a run whose
\* yielded cycles all have a zero_cancel that is not above the initial ratio
\* returns the initial ratio and an empty cycle.
RatioStrictlyIncreases ==
    [][/\ (spc = "for" /\ hpc \in {"done", "closed"} /\ spc' = "for") =>
             FLt(ratio, ratio')
       /\ FLe(r0, ratio')
       /\ (spc = "for" /\ spc' = "returned" /\ iters = 1
             /\ \A i \in 1..Len(yielded) : ~FLt(r0, zero_cancel(yielded[i]))) =>
             (ratio' = r0 /\ cycle' = <<>>)]_vars

\* C20 witness: run returned a ratio above the initial one after passes in
\* both directions that each raised it
WitnessRatioIncreased ==
    /\ spc = "returned" /\ iters >= 3
    /\ FLt(r0, ratio) /\ cycle # <<>>

----------------------------------------------------------------------------
(* Statements about the outer loop of MinParametricSolver.run *)

\* C21: MinParametricSolver.run alternates directions: the first pass of the
\* outer loop uses howard_succ, every pass that raised the ratio is followed
\* by a pass in the other direction (succ, pred, succ, ...), the direction
\* changes nowhere else, and the next pass works on the dist the one before
\* left (the same finder, the same dist).
DirectionAlternates ==
    [][/\ (spc = "begin" /\ spc' = "for") => method' = "howard_succ"
       /\ (spc = "for" /\ hpc \in {"done", "closed"} /\ spc' = "for") =>
             /\ method \in {"howard_succ", "howard_pred"}
             /\ method' \in {"howard_succ", "howard_pred"}
             /\ method' # method
             /\ FLt(ratio, ratio')
             /\ dist' = dist
       /\ method' # method =>
             \/ spc = "begin"
             \/ spc = "for" /\ hpc \in {"done", "closed"} /\ spc' = "for"]_vars

\* C21 witness: the third pass of a run is a howard_succ pass again, on a
\* dist that the passes before it changed
WitnessThirdPassIsSucc ==
    /\ spc = "for" /\ iters = 3 /\ hpc = "relax"
    /\ method = "howard_succ"
    /\ \E v \in Nodes : dist[v] # FInt(0)

\* the zero_cancel of the i-th cycle that the running pass has yielded
YieldedRatio(i) == zero_cancel(yielded[i])

\* what a pass of the outer loop has taken from the cycles yielded so far
PassTaken ==
    IF pick_one_only
    THEN /\ hpc = "closed" =>
              /\ yielded # <<>>
              /\ FLt(ratio, YieldedRatio(Len(yielded)))
              /\ r_max = YieldedRatio(Len(yielded))
              /\ c_max = yielded[Len(yielded)]
              /\ \A i \in 1..(Len(yielded) - 1) : ~FLt(ratio, YieldedRatio(i))
         /\ hpc # "closed" =>
              /\ r_max = ratio
              /\ \A i \in 1..Len(yielded) : ~FLt(ratio, YieldedRatio(i))
    ELSE /\ hpc # "closed"
         /\ FLe(ratio, r_max)
         /\ \A i \in 1..Len(yielded) : FLe(YieldedRatio(i), r_max)
         /\ \/ r_max = ratio
            \/ \E i \in 1..Len(yielded) :
                  r_max = YieldedRatio(i) /\ c_max = yielded[i]

\* C22: with pick_one_only = True a pass of MinParametricSolver.run stops
\* consuming cycles at the first one whose zero_cancel is above the current
\* ratio (the cycles before it were not above it), with pick_one_only = False
\* it consumes every yielded cycle and keeps the largest zero_cancel; in both
\* cases the ratio and cycle kept are what drives the next pass.
PickOneOnlyStopsAtFirst ==
    [][/\ (spc' = "for" /\ hpc' \in {"relax", "yield", "done", "closed"}) => PassTaken'
       /\ (spc = "for" /\ hpc \in {"done", "closed"} /\ spc' = "for") =>
             (ratio' = r_max /\ cycle' = c_max)]_vars

\* C22 witness: a pass with pick_one_only = True stopped at a cycle that
\* raised the ratio while find_cycle had another cycle to give
WitnessStoppedAtFirst ==
    /\ spc = "for" /\ pick_one_only /\ hpc = "closed"
    /\ handles # <<>>
    /\ FLt(ratio, r_max)

----------------------------------------------------------------------------
(* Statements about the parts of a finder *)

\* C23: the assertion of howard and of howard_pred never fails: every node
\* that find_cycle hands to them after a pass is the handle of a cycle with
\* an edge (u,v,e) on it for which dist[v] > dist[u] + w(e), whatever the
\* graph, the initial dist and (for howard_pred) the update_ok predicate.
AssertionNeverFails ==
    /\ hpc # "AssertionError"
    /\ (method = "howard" /\ hpc = "yield") =>
          \A i \in 1..Len(handles) : is_negative(handles[i], dist, pred)
    /\ (method = "howard_pred" /\ hpc = "yield") =>
          \A i \in 1..Len(handles) : is_negative_q(handles[i], dist, pred)

\* C23 witness: howard_pred, with an update_ok that refuses values below a
\* floor, is about to assert on a cycle that its second or a later pass closed
WitnessAssertionReached ==
    /\ method = "howard_pred" /\ update_ok = "floor"
    /\ hpc = "yield" /\ handles # <<>> /\ rounds >= 2

----------------------------------------------------------------------------
(* One relaxation pass on the same graph and the same dist under two edge *)
(* orders: NegCycleFinder(digraph).relax(dist, get_weight) on a new finder, *)
(* then again on the graph built in another insertion order                *)

Perms(n) == {f \in [1..n -> 1..n] : \A i, j \in 1..n : i # j => f[i] # f[j]}

\* the iteration orders of digraph.items() and neighbors.items() that the
\* same adjacency mapping can have: the edges of one source stay together
EdgeOrders(g) ==
    {h \in {[i \in 1..Len(g) |-> g[f[i]]] : f \in Perms(Len(g))} :
        \A i, j, k \in 1..Len(h) : (i < j /\ j < k /\ h[i].u = h[k].u) => h[j].u = h[i].u}

\* finder.relax(dist, get_weight) on a finder whose pred is empty
relax_pass ==
    /\ hpc = "call"
    /\ LET r == relax(dist, pred)
       IN  /\ dist' = r.dist
           /\ pred' = r.pred
           /\ calls' = Append(calls, [graph |-> digraph, dist |-> r.dist,
                                      pred |-> r.pred, changed |-> r.changed])
    /\ hpc' = "passed"
    /\ UNCHANGED <<succ, found, handles, yielded, rounds, solverVars, inputVars,
                   cls_pred, inst_pred, inst_dist, weights, minVars>>

\* the same graph in another order, the same initial dist, a new finder
rebuild ==
    /\ hpc = "passed"
    /\ Len(calls) < 2
    /\ digraph' \in EdgeOrders(digraph) \ {digraph}
    /\ dist' = inst_dist[1]
    /\ pred' = NoDict
    /\ hpc' = "call"
    /\ UNCHANGED <<succ, found, handles, yielded, rounds, solverVars,
                   weightfn, dtype, r0, method, update_ok, sharedVars, weights, minVars>>

InitOrder ==
    /\ \E shape \in GraphShapes :
         \E costs \in [1..Len(shape) -> Costs] :
            digraph = MkGraph(shape, costs, [i \in 1..Len(shape) |-> 1])
    /\ weightfn = "weight"
    /\ dtype = "int"
    /\ \E d0 \in [Nodes -> 0..MaxDist0] : dist = [n \in Nodes |-> FInt(d0[n])]
    /\ inst_dist = <<dist>>
    /\ pred = NoDict
    /\ succ = NoDict
    /\ method = "howard" /\ update_ok = "none"
    /\ found = FALSE
    /\ handles = <<>>
    /\ yielded = <<>>
    /\ rounds = 0
    /\ hpc = "call"
    /\ ratio = FInt(0)
    /\ r0 = FInt(0)
    /\ r_min = FInt(0)
    /\ c_min = <<>>
    /\ cycle = <<>>
    /\ spc = "none"
    /\ iters = 0
    /\ cls_pred = << >> /\ inst_pred = << >> /\ calls = << >>
    /\ OracleIdle /\ MinIdle

NextOrder ==
    \/ relax_pass
    \/ rebuild

SpecOrder == InitOrder /\ [][NextOrder]_vars

\* what the edge that pred names for v offered, taken on the initial dist
FirstOffer(entry) == FAdd(inst_dist[1][entry.node], get_weight(entry.edge))

\* C24 as stated: the passes over two edge orders end with the same dist and,
\* apart from ties (two edges that gave v the same value), the same pred
PassIsOrderIndependent ==
    Len(calls) = 2 =>
        /\ calls[1].dist = calls[2].dist
        /\ \A v \in Nodes :
              \/ SameEntry(calls[1].pred, calls[2].pred, v)
              \/ /\ v \in DOMAIN calls[1].pred /\ v \in DOMAIN calls[2].pred
                 /\ calls[1].dist[v] = calls[2].dist[v]

\* C24: what two edge orders of one relaxation pass share: the return value
\* (whether anything was updated); after the pass dist[v] is at most its
\* value before and at most dist_before[u] + w(e) for every edge (u,v,e);
\* and when the pass updated no node that an edge leaves, the final dist is
\* the same and pred differs only between edges that offered the same value.
PassSharesAcrossOrders ==
    Len(calls) = 2 =>
        /\ calls[1].changed = calls[2].changed
        /\ \A k \in 1..2 :
              /\ \A v \in Nodes : FLe(calls[k].dist[v], inst_dist[1][v])
              /\ \A e \in EdgesOfGraph :
                    FLe(calls[k].dist[e.v], FAdd(inst_dist[1][e.u], get_weight(e)))
        /\ (\A e \in EdgesOfGraph : calls[1].dist[e.u] = inst_dist[1][e.u]) =>
              /\ calls[1].dist = calls[2].dist
              /\ \A v \in Nodes :
                    \/ SameEntry(calls[1].pred, calls[2].pred, v)
                    \/ /\ v \in DOMAIN calls[1].pred /\ v \in DOMAIN calls[2].pred
                       /\ FirstOffer(calls[1].pred[v]) = FirstOffer(calls[2].pred[v])

\* C24 witness: the passes over two orders of the same edges, from the same
\* dist, ended with different dist
WitnessOrdersDiffer ==
    /\ Len(calls) = 2
    /\ calls[1].dist # calls[2].dist
    /\ calls[1].changed /\ calls[2].changed

\* the places in the edge order g of the edges into v
EdgesInto(g, v) == {i \in 1..Len(g) : g[i].v = v}

\* what the i-th edge of g offers its target on the initial dist
OfferOf(g, i) == FAdd(inst_dist[1][g[i].u], get_weight(g[i]))

\* the edges into v whose offer is the smallest
BestInto(g, v) ==
    {i \in EdgesInto(g, v) : \A j \in EdgesInto(g, v) : FLe(OfferOf(g, i), OfferOf(g, j))}

\* pass k updated v, and no source of an edge into v, so that the offers
\* made to v during the pass are the offers on the initial dist
OffersStand(k, v) ==
    /\ \A i \in EdgesInto(calls[k].graph, v) :
          calls[k].dist[calls[k].graph[i].u] = inst_dist[1][calls[k].graph[i].u]
    /\ \E i \in EdgesInto(calls[k].graph, v) :
          FLt(OfferOf(calls[k].graph, i), inst_dist[1][v])

\* two edges into v offered the same smallest value during pass k
TiedInto(k, v) == OffersStand(k, v) /\ Cardinality(BestInto(calls[k].graph, v)) >= 2

FirstOf(S) == CHOOSE i \in S : \A j \in S : i <= j
LastOf(S) == CHOOSE i \in S : \A j \in S : j <= i

\* C25 as stated: of two edges into v that offer the same smallest value,
\* pred[v] after the pass is the one processed last
TieGoesToLast ==
    \A k \in 1..Len(calls) : \A v \in Nodes :
        TiedInto(k, v) =>
            calls[k].pred[v].edge = calls[k].graph[LastOf(BestInto(calls[k].graph, v))]

\* C25: the test of relax is strict, so of the edges into v that offer the
\* same smallest value the one processed FIRST stays in pred[v]: the later
\* ones offer a tie, which updates nothing.
TieGoesToFirst ==
    \A k \in 1..Len(calls) : \A v \in Nodes :
        OffersStand(k, v) =>
            /\ v \in DOMAIN calls[k].pred
            /\ calls[k].dist[v] = OfferOf(calls[k].graph, FirstOf(BestInto(calls[k].graph, v)))
            /\ calls[k].pred[v].edge = calls[k].graph[FirstOf(BestInto(calls[k].graph, v))]
            /\ calls[k].pred[v].node = calls[k].pred[v].edge.u

\* C25 witness: a pass in which two edges into one node offered the same
\* smallest value, below the node's dist
WitnessTiedOffers ==
    \E k \in 1..Len(calls) : \E v \in Nodes : TiedInto(k, v)

----------------------------------------------------------------------------
(* find_cycle and cycle_list on an arbitrary pred map: finder.pred = {...}; *)
(* list(finder.find_cycle()); finder.cycle_list(handle)                    *)

\* the payload of the pred entry of vtx that names utx: the edge (utx, vtx)
EntryOf(utx, vtx) ==
    [node |-> utx, edge |-> [u |-> utx, v |-> vtx, cost |-> 0, time |-> 1]]

\* the pred maps over the nodes of the graph
PredMaps ==
    UNION {{[v \in S |-> EntryOf(f[v], v)] : f \in [S -> Nodes]} : S \in SUBSET Nodes}

RECURSIVE Follow(_, _, _)
\* the node reached from n by k steps along p, 0 when p ends before
Follow(p, n, k) ==
    IF k = 0 THEN n
    ELSE IF n \notin DOMAIN p THEN 0
    ELSE Follow(p, p[n].node, k - 1)

\* n lies on a cycle of the functional graph of p
OnCycle(p, n) == \E k \in 1..NumNodes : Follow(p, n, k) = n

\* the nodes of the cycle through n
CycleThrough(p, n) == {Follow(p, n, k) : k \in 1..NumNodes}

\* list(finder.find_cycle()), of neg_cycle.py or of neg_cycle_q.py
find_cycle_call ==
    /\ hpc = "call"
    /\ handles' = IF method = "howard" THEN find_cycle(pred) ELSE find_cycle_q(pred)
    /\ hpc' = "found"
    /\ UNCHANGED <<dist, pred, succ, found, yielded, rounds, solverVars, inputVars,
                   otherVars>>

\* finder.cycle_list(handle) for a handle on a cycle of pred
cycle_list_call(handle) ==
    /\ hpc = "found"
    /\ OnCycle(pred, handle)
    /\ calls' = Append(calls,
                   [handle |-> handle,
                    cycle |-> IF method = "howard" THEN cycle_list(handle, pred)
                              ELSE cycle_list_q(handle, pred)])
    /\ hpc' = "listed"
    /\ UNCHANGED <<dist, pred, succ, found, handles, yielded, rounds, solverVars,
                   inputVars, cls_pred, inst_pred, inst_dist, weights, minVars>>

InitPred ==
    /\ digraph = <<>>
    /\ weightfn = "weight"
    /\ dtype = "int"
    /\ dist = [n \in Nodes |-> FInt(0)]
    /\ pred \in PredMaps
    /\ succ = NoDict
    /\ \/ method = "howard" /\ update_ok = "none"
       \/ method = "howard_pred" /\ update_ok = "always"
    /\ found = FALSE
    /\ handles = <<>>
    /\ yielded = <<>>
    /\ rounds = 0
    /\ hpc = "call"
    /\ ratio = FInt(0)
    /\ r0 = FInt(0)
    /\ r_min = FInt(0)
    /\ c_min = <<>>
    /\ cycle = <<>>
    /\ spc = "none"
    /\ iters = 0
    /\ SharedIdle /\ OracleIdle /\ MinIdle

NextPred ==
    \/ find_cycle_call
    \/ \E handle \in Nodes : cycle_list_call(handle)

SpecPred == InitPred /\ [][NextPred]_vars

\* C26: find_cycle yields exactly one node for every cycle of the functional
\* graph of pred, each yielded node lies on the cycle it stands for, and
\* nothing is yielded when pred has no cycle; no cycle is missed, whatever
\* node it is reached from.
FindCycleOnePerCycle ==
    hpc \in {"found", "listed"} =>
        /\ \A i \in 1..Len(handles) : OnCycle(pred, handles[i])
        /\ \A i, j \in 1..Len(handles) :
              i # j => CycleThrough(pred, handles[i]) # CycleThrough(pred, handles[j])
        /\ \A n \in Nodes :
              OnCycle(pred, n) =>
                  \E i \in 1..Len(handles) : handles[i] \in CycleThrough(pred, n)
        /\ (\A n \in Nodes : ~OnCycle(pred, n)) => handles = <<>>

\* C26 witness: find_cycle yielded two nodes, one for each of two cycles, on
\* a pred that also has a node outside every cycle
WitnessTwoHandles ==
    /\ hpc = "found" /\ Len(handles) = 2
    /\ \E n \in DOMAIN pred : ~OnCycle(pred, n)

\* C27: cycle_list(handle), for a handle on a cycle of pred, returns every
\* edge of that cycle exactly once: first the edge that enters handle, then
\* the edge that enters its source, and so on backwards along pred until the
\* edge that leaves handle.
CycleListWalksBack ==
    \A k \in 1..Len(calls) :
        LET h == calls[k].handle
            c == calls[k].cycle
        IN  /\ Len(c) = Cardinality(CycleThrough(pred, h))
            /\ c[1] = pred[h].edge
            /\ \A i \in 1..(Len(c) - 1) : c[i + 1] = pred[c[i].u].edge
            /\ c[Len(c)].u = h
            /\ \A i, j \in 1..Len(c) : i # j => c[i] # c[j]
            /\ {c[i].v : i \in 1..Len(c)} = CycleThrough(pred, h)

\* C27 witness: pred = {2: (1, ab), 3: (2, bc), 1: (3, ca)} and
\* cycle_list(1) = [ca, bc, ab]
WitnessThreeCycleListed ==
    /\ hpc = "listed"
    /\ calls[1].handle = 1
    /\ pred = (1 :> EntryOf(3, 1)) @@ (2 :> EntryOf(1, 2)) @@ (3 :> EntryOf(2, 3))
    /\ calls[1].cycle = <<EntryOf(3, 1).edge, EntryOf(2, 3).edge, EntryOf(1, 2).edge>>

----------------------------------------------------------------------------
(* The finder of all.py: its howard has no found flag; the while loop over *)
(* relax has a for loop over find_cycle with an else clause                 *)

\* all.py relax: the same pass as that of neg_cycle.py
RECURSIVE relax_all_from(_, _, _, _)
relax_all_from(i, d, p, changed) ==
    IF i > Len(digraph) THEN [dist |-> d, pred |-> p, changed |-> changed]
    ELSE LET edge == digraph[i]
             new == FAdd(d[edge.u], get_weight(edge))
         IN  IF FLt(new, d[edge.v])
             THEN relax_all_from(i + 1, [d EXCEPT ![edge.v] = new],
                                 Put(p, edge.v, [node |-> edge.u, edge |-> edge]), TRUE)
             ELSE relax_all_from(i + 1, d, p, changed)

\* all.py find_cycle, the walk from vtx: visited[utx] = vtx at the top of
\* the loop, then the step along pred
RECURSIVE walk_all(_, _, _, _)
walk_all(utx, vtx, visited, p) ==
    LET seen == Put(visited, utx, vtx)
    IN  IF utx \notin DOMAIN p THEN [visited |-> seen, out |-> <<>>]
        ELSE IF p[utx].node \in DOMAIN seen
        THEN [visited |-> seen,
              out |-> IF seen[p[utx].node] = vtx THEN <<p[utx].node>> ELSE <<>>]
        ELSE walk_all(p[utx].node, vtx, seen, p)

RECURSIVE find_all_from(_, _, _, _)
find_all_from(vtx, visited, out, p) ==
    IF vtx > NumNodes THEN out
    ELSE IF vtx \in DOMAIN visited THEN find_all_from(vtx + 1, visited, out, p)
    ELSE LET r == walk_all(vtx, vtx, visited, p)
         IN  find_all_from(vtx + 1, r.visited, out \o r.out, p)

\* all.py is_negative
RECURSIVE negative_all_from(_, _, _, _)
negative_all_from(vtx, handle, d, p) ==
    \/ FLt(FAdd(d[p[vtx].node], get_weight(p[vtx].edge)), d[vtx])
    \/ p[vtx].node # handle /\ negative_all_from(p[vtx].node, handle, d, p)

\* all.py cycle_list
RECURSIVE cycle_all_from(_, _, _)
cycle_all_from(vtx, handle, p) ==
    <<p[vtx].edge>> \o
        (IF p[vtx].node = handle THEN <<>> ELSE cycle_all_from(p[vtx].node, handle, p))

\* all.py howard: self.pred = {}
howard_all_start ==
    /\ hpc = "call"
    /\ method = "howard_all"
    /\ pred' = NoDict
    /\ handles' = <<>>
    /\ yielded' = <<>>
    /\ rounds' = 0
    /\ hpc' = "relax"
    /\ UNCHANGED <<dist, succ, found, solverVars, inputVars, otherVars>>

\* all.py howard: while self.relax(dist, get_weight): for vtx in self.find_cycle()
howard_all_relax ==
    /\ hpc = "relax"
    /\ method = "howard_all"
    /\ LET r == relax_all_from(1, dist, pred, FALSE)
       IN  /\ dist' = r.dist
           /\ pred' = r.pred
           /\ handles' = IF r.changed THEN find_all_from(1, NoDict, <<>>, r.pred) ELSE <<>>
           /\ hpc' = IF r.changed THEN "yield" ELSE "done"
    /\ rounds' = Count(rounds)
    /\ UNCHANGED <<succ, found, yielded, solverVars, inputVars, otherVars>>

\* all.py howard: assert self.is_negative(vtx, dist, get_weight);
\* yield self.cycle_list(vtx)
howard_all_yield ==
    /\ hpc = "yield"
    /\ method = "howard_all"
    /\ handles # <<>>
    /\ IF ~negative_all_from(Head(handles), Head(handles), dist, pred)
       THEN /\ hpc' = "AssertionError"
            /\ UNCHANGED <<yielded, handles>>
       ELSE /\ yielded' = Append(yielded, cycle_all_from(Head(handles), Head(handles), pred))
            /\ handles' = Tail(handles)
            /\ hpc' = hpc
    /\ UNCHANGED <<dist, pred, succ, found, rounds, solverVars, inputVars, otherVars>>

\* all.py howard: the for loop ended without a break, so its else clause
\* runs: `else: break` leaves the while loop
howard_all_end_round ==
    /\ hpc = "yield"
    /\ method = "howard_all"
    /\ handles = <<>>
    /\ hpc' = "done"
    /\ UNCHANGED <<dist, pred, succ, found, handles, yielded, rounds, solverVars,
                   inputVars, otherVars>>

\* do_case(digraph, dist) of all.py: ncf.howard(dist, get_weight)
InitAll ==
    /\ \E shape \in GraphShapes :
         \E costs \in [1..Len(shape) -> Costs] :
            digraph = MkGraph(shape, costs, [i \in 1..Len(shape) |-> 1])
    /\ weightfn = "weight"
    /\ dtype = "int"
    /\ \E d0 \in [Nodes -> 0..MaxDist0] : dist = [n \in Nodes |-> FInt(d0[n])]
    /\ pred = NoDict
    /\ succ = NoDict
    /\ method = "howard_all" /\ update_ok = "none"
    /\ found = FALSE
    /\ handles = <<>>
    /\ yielded = <<>>
    /\ rounds = 0
    /\ hpc = "call"
    /\ ratio = FInt(0)
    /\ r0 = FInt(0)
    /\ r_min = FInt(0)
    /\ c_min = <<>>
    /\ cycle = <<>>
    /\ spc = "none"
    /\ iters = 0
    /\ SharedIdle /\ OracleIdle /\ MinIdle

NextAll ==
    \/ howard_all_start
    \/ howard_all_relax
    \/ howard_all_yield
    \/ howard_all_end_round

SpecAll == InitAll /\ [][NextAll]_vars

\* C28: the howard of all.py goes back to relax after it has yielded the
\* cycles of a round and ends only when a round makes no update, so that it
\* detects a negative cycle that is not in pred after the first round (from
\* an all-zero dist, as in its test case 1): once it has ended, a graph with
\* a negative cycle has yielded a cycle, and a run that yielded none has
\* left no edge that can be relaxed.
ExhaustiveHowardDetects ==
    (method = "howard_all" /\ hpc = "done") =>
        /\ HasNegativeCycle => yielded # <<>>
        /\ yielded = <<>> => AllEdgesFeasible

----------------------------------------------------------------------------
(* howard_pred of neg_cycle_q.py against howard of neg_cycle.py *)

\* C29: with update_ok always true howard_pred does, from the same dist and
\* pred, what howard does at every step: it starts with an empty pred, its
\* pass leaves the dist and pred that relax of neg_cycle.py leaves and the
\* handles that find_cycle of neg_cycle.py yields, it yields the cycle that
\* cycle_list of neg_cycle.py returns, and it goes on and ends as howard does;
\* so both yield the same sequence of cycles.
HowardPredIsHoward ==
    [][(method = "howard_pred" /\ update_ok = "always") =>
          /\ hpc = "call" =>
                /\ pred' = NoDict /\ dist' = dist /\ yielded' = <<>>
                /\ found' = FALSE /\ hpc' = "relax"
          /\ hpc = "relax" =>
                /\ dist' = relax(dist, pred).dist
                /\ pred' = relax(dist, pred).pred
                /\ handles' = IF relax(dist, pred).changed
                              THEN find_cycle(relax(dist, pred).pred) ELSE <<>>
                /\ hpc' = IF relax(dist, pred).changed THEN "yield" ELSE "done"
                /\ yielded' = yielded
          /\ (hpc = "yield" /\ handles # <<>>) =>
                /\ is_negative(Head(handles), dist, pred)
                /\ yielded' = Append(yielded, cycle_list(Head(handles), pred))
                /\ handles' = Tail(handles)
                /\ found' = TRUE /\ hpc' = "yield"
                /\ dist' = dist /\ pred' = pred
          /\ (hpc = "yield" /\ handles = <<>>) =>
                /\ hpc' = IF howard_continues(found) THEN "relax" ELSE "done"
                /\ dist' = dist /\ pred' = pred /\ yielded' = yielded]_vars

\* C29 witness: howard_pred with update_ok always true ended after two or
\* more passes, one of which met an edge that offered a tie, with a cycle
WitnessHowardPredRan ==
    /\ method = "howard_pred" /\ update_ok = "always"
    /\ hpc = "done" /\ rounds >= 2
    /\ Len(yielded) >= 1
    /\ \E e \in EdgesOfGraph : dist[e.v] = FAdd(dist[e.u], get_weight(e))

----------------------------------------------------------------------------
(* MinParametricSolver.run with the update_ok of the tests, lambda D, d: D > d *)

====
